---- MODULE Spec2Model ----
(***************************************************************************)
(* Model of server3.py: the stateless "Book Data Analyst" MCP server.      *)
(*                                                                         *)
(* main() registers four tools over the in-memory list BOOKS_DATABASE and  *)
(* then runs the server inside try / except / finally.  The model has the  *)
(* control position of main(), the messages it printed, the exit status    *)
(* of the process, the book list, and the tool invocations in flight.      *)
(* A tool invocation is modelled one list element at a time (the list      *)
(* comprehension's iteration), so that invocations interleave at the       *)
(* finest grain.                                                           *)
(*                                                                         *)
(* Ratings are decimal literals with at most one decimal; they are kept    *)
(* as integers in hundredths (4.5 is 450), and a quotient is kept as a     *)
(* reduced fraction of hundredths.  Binary floating-point rounding of sum  *)
(* and division is not modelled.                                           *)
(***************************************************************************)
EXTENDS Integers, Sequences, FiniteSets, TLC

VARIABLES db, pc, exc, cause, out, status, slots, observed

vars == <<db, pc, exc, cause, out, status, slots, observed>>

(***************************************************************************)
(* The data.                                                               *)
(***************************************************************************)
BOOKS_DATABASE ==
  << [id |-> 1, title |-> "The Great Gatsby", author |-> "F. Scott Fitzgerald",
      genre |-> "Classic Fiction", year |-> 1925, isbn |-> "978-0743273565",
      available |-> TRUE, rating |-> 450],
     [id |-> 2, title |-> "To Kill a Mockingbird", author |-> "Harper Lee",
      genre |-> "Classic Fiction", year |-> 1960, isbn |-> "978-0446310789",
      available |-> TRUE, rating |-> 480],
     [id |-> 3, title |-> "1984", author |-> "George Orwell",
      genre |-> "Dystopian Fiction", year |-> 1949, isbn |-> "978-0451524935",
      available |-> FALSE, rating |-> 470],
     [id |-> 4, title |-> "Pride and Prejudice", author |-> "Jane Austen",
      genre |-> "Romance", year |-> 1813, isbn |-> "978-0141439518",
      available |-> TRUE, rating |-> 460],
     [id |-> 5, title |-> "The Catcher in the Rye", author |-> "J.D. Salinger",
      genre |-> "Classic Fiction", year |-> 1951, isbn |-> "978-0316769488",
      available |-> TRUE, rating |-> 420],
     [id |-> 6, title |-> "Brave New World", author |-> "Aldous Huxley",
      genre |-> "Dystopian Fiction", year |-> 1932, isbn |-> "978-0060850524",
      available |-> TRUE, rating |-> 440],
     [id |-> 7, title |-> "The Hobbit", author |-> "J.R.R. Tolkien",
      genre |-> "Fantasy", year |-> 1937, isbn |-> "978-0547928227",
      available |-> FALSE, rating |-> 490],
     [id |-> 8, title |-> "Fahrenheit 451", author |-> "Ray Bradbury",
      genre |-> "Dystopian Fiction", year |-> 1953, isbn |-> "978-1451673319",
      available |-> TRUE, rating |-> 430],
     [id |-> 9, title |-> "Dune", author |-> "Frank Herbert",
      genre |-> "Science Fiction", year |-> 1965, isbn |-> "978-0441172719",
      available |-> TRUE, rating |-> 470],
     [id |-> 10, title |-> "The Lord of the Rings", author |-> "J.R.R. Tolkien",
      genre |-> "Fantasy", year |-> 1954, isbn |-> "978-0544003415",
      available |-> TRUE, rating |-> 490] >>

(***************************************************************************)
(* Inputs of the tools.  The genre strings hold every genre of the data,   *)
(* one that differs from a stored genre only in letter case, the empty     *)
(* string and one unknown genre; the thresholds (in hundredths) lie below  *)
(* every stored rating, on a stored rating, between two of them and on the *)
(* highest one; the years hold stored years and an absent one.             *)
(***************************************************************************)
GenreInputs ==
  {"Classic Fiction", "Dystopian Fiction", "Romance", "Fantasy",
   "Science Fiction", "fantasy", "", "Mystery"}

RatingInputs == {410, 480, 485, 490}

YearInputs == {1949, 1954, 2000}

GenreInput  == [genre : GenreInputs]
RatingInput == [rating : RatingInputs]
YearInput   == [year : YearInputs]

Tools ==
  {"get_average_rating_by_genre", "get_books_by_genre",
   "get_books_by_rating_above", "get_books_by_year"}

\* The input model each tool's signature declares.
ParamsOf(tool) ==
  CASE tool = "get_average_rating_by_genre" -> GenreInput
    [] tool = "get_books_by_genre"          -> GenreInput
    [] tool = "get_books_by_rating_above"   -> RatingInput
    [] tool = "get_books_by_year"           -> YearInput

\* The invocations the server handles at the same time.
Slots == {1, 2}

(***************************************************************************)
(* Arithmetic of the average.                                              *)
(***************************************************************************)
RECURSIVE GCD(_, _)
GCD(a, b) == IF b = 0 THEN a ELSE GCD(b, a % b)

ZeroDivisionError == [raised |-> "ZeroDivisionError"]

\* Python's a / n: raises on n = 0, else the quotient (a reduced fraction).
TrueDiv(a, n) ==
  IF n = 0 THEN ZeroDivisionError
  ELSE LET g == GCD(a, n) IN [num |-> a \div g, den |-> n \div g]

\* The literal 0.0.
ZeroFloat == [num |-> 0, den |-> 1]

RECURSIVE sum(_)
\* sum(b['rating'] for b in books): left to right from 0.
sum(books) ==
  IF books = <<>> THEN 0
  ELSE sum(SubSeq(books, 1, Len(books) - 1)) + books[Len(books)].rating

(***************************************************************************)
(* The four tools: the condition of each list comprehension and the value  *)
(* each tool returns for the list the comprehension built.                 *)
(***************************************************************************)
\* str.lower() on the genre strings in use.
Lower(str) ==
  CASE str = "Classic Fiction"   -> "classic fiction"
    [] str = "Dystopian Fiction" -> "dystopian fiction"
    [] str = "Romance"           -> "romance"
    [] str = "Fantasy"           -> "fantasy"
    [] str = "Science Fiction"   -> "science fiction"
    [] str = "Mystery"           -> "mystery"
    [] OTHER                     -> str

AverageFilter(b, params) == b.genre = params.genre

\* Variant: the genres are compared without regard to letter case.
GenreFilterIgnoreCase(b, params) == Lower(b.genre) = Lower(params.genre)

GenreFilter(b, params) == b.genre = params.genre

\* Variant: >= in place of >.
RatingFilterInclusive(b, params) == b.rating >= params.rating

RatingFilter(b, params) == b.rating > params.rating

\* Variant: >= in place of ==.
YearFilterFrom(b, params) == b.year >= params.year

YearFilter(b, params) == b.year = params.year

Keeps(tool, b, params) ==
  CASE tool = "get_average_rating_by_genre" -> AverageFilter(b, params)
    [] tool = "get_books_by_genre"          -> GenreFilter(b, params)
    [] tool = "get_books_by_rating_above"   -> RatingFilter(b, params)
    [] tool = "get_books_by_year"           -> YearFilter(b, params)

\* Variant: the element is put in front (insert(0, b)).
CollectFront(books, b, keep) == IF keep THEN <<b>> \o books ELSE books

\* One iteration of the comprehension: the element is appended when kept.
Collect(books, b, keep) == IF keep THEN Append(books, b) ELSE books

AverageRatingResult(avg, genre) ==
  [kind |-> "AverageRatingResult", average_rating |-> avg, genre |-> genre]

BooksList(books) == [kind |-> "BooksList", books |-> books]

ToolError(e) == [kind |-> "error", error |-> e]

\* Variant: floor division (//) in place of true division: the quotient is
\* cut down to a whole number.
get_average_rating_by_genre_FloorDiv(books, params) ==
  IF books = <<>>
  THEN AverageRatingResult(ZeroFloat, params.genre)
  ELSE AverageRatingResult(
         [num |-> ((sum(books) \div Len(books)) \div 100) * 100, den |-> 1],
         params.genre)

\* Variant: the "if not books" test is missing.
get_average_rating_by_genre_NoGuard(books, params) ==
  LET avg == TrueDiv(sum(books), Len(books))
  IN  IF avg = ZeroDivisionError
      THEN ToolError(avg)
      ELSE AverageRatingResult(avg, params.genre)

get_average_rating_by_genre(books, params) ==
  IF books = <<>>
  THEN AverageRatingResult(ZeroFloat, params.genre)
  ELSE LET avg == TrueDiv(sum(books), Len(books))
       IN  IF avg = ZeroDivisionError
           THEN ToolError(avg)
           ELSE AverageRatingResult(avg, params.genre)

get_books_by_genre(books, params) == BooksList(books)

get_books_by_rating_above(books, params) == BooksList(books)

get_books_by_year(books, params) == BooksList(books)

ReturnValue(tool, books, params) ==
  CASE tool = "get_average_rating_by_genre" -> get_average_rating_by_genre(books, params)
    [] tool = "get_books_by_genre"          -> get_books_by_genre(books, params)
    [] tool = "get_books_by_rating_above"   -> get_books_by_rating_above(books, params)
    [] tool = "get_books_by_year"           -> get_books_by_year(books, params)

(***************************************************************************)
(* State.                                                                  *)
(***************************************************************************)
NoParams == [empty |-> TRUE]
NoResult == [kind |-> "none"]
NoException == [type |-> "none"]

IdleSlot ==
  [phase |-> "idle", tool |-> "none", params |-> NoParams, i |-> 0,
   books |-> <<>>, result |-> NoResult]

\* A response a caller holds: the call and what it returned.
Response(tool, params, result) ==
  [tool |-> tool, params |-> params, result |-> result]

NoResponse == Response("none", NoParams, NoResult)

MsgShutdown == "Server shutting down gracefully..."
MsgError    == "Unexpected error"
MsgExited   == "Server exited."

\* What mcp.run can raise: the interrupt, any subclass of Exception, and a
\* BaseException that neither except clause names (the SDK's web server
\* leaves with SystemExit(1) when it cannot start).
RunExceptions ==
  { [type |-> "KeyboardInterrupt"], [type |-> "Exception"],
    [type |-> "SystemExit", code |-> 1] }

Init ==
  /\ db = BOOKS_DATABASE
  /\ pc = "main"
  /\ exc = NoException
  /\ cause = "none"
  /\ out = <<>>
  /\ status = 0
  /\ slots = [s \in Slots |-> IdleSlot]
  /\ observed = NoResponse

(***************************************************************************)
(* main(): set-up, then the try statement around mcp.run.                  *)
(***************************************************************************)
\* Logging, FastMCP(...), the models and the four @mcp.tool registrations;
\* control enters the try block and mcp.run starts serving.
RunServer ==
  /\ pc = "main"
  /\ pc' = "running"
  /\ UNCHANGED <<db, exc, cause, out, status, slots, observed>>

\* mcp.run returns; the invocations it was serving are gone with it.
RunReturns ==
  /\ pc = "running"
  /\ pc' = "finally"
  /\ cause' = "returned"
  /\ slots' = [s \in Slots |-> IdleSlot]
  /\ UNCHANGED <<db, exc, out, status, observed>>

\* mcp.run raises e; the invocations it was serving are gone with it.
RunRaises(e) ==
  /\ pc = "running"
  /\ pc' = "except"
  /\ exc' = e
  /\ cause' = e.type
  /\ slots' = [s \in Slots |-> IdleSlot]
  /\ UNCHANGED <<db, out, status, observed>>

\* except KeyboardInterrupt: print the shutdown message.
ExceptKeyboardInterrupt ==
  /\ pc = "except"
  /\ exc.type = "KeyboardInterrupt"
  /\ out' = Append(out, MsgShutdown)
  /\ exc' = NoException
  /\ pc' = "finally"
  /\ UNCHANGED <<db, cause, status, slots, observed>>

\* except Exception as e: print the error message.
ExceptException ==
  /\ pc = "except"
  /\ exc.type = "Exception"
  /\ out' = Append(out, MsgError)
  /\ exc' = NoException
  /\ pc' = "sys_exit"
  /\ UNCHANGED <<db, cause, status, slots, observed>>

\* Variant: sys.exit(0).
SysExitZero ==
  /\ pc = "sys_exit"
  /\ exc' = [type |-> "SystemExit", code |-> 0]
  /\ pc' = "finally"
  /\ UNCHANGED <<db, cause, out, status, slots, observed>>

\* Variant: os._exit(1), which ends the process on the spot.
SysExitImmediately ==
  /\ pc = "sys_exit"
  /\ status' = 1
  /\ pc' = "exited"
  /\ UNCHANGED <<db, exc, cause, out, slots, observed>>

\* sys.exit(1) raises SystemExit(1) inside the handler; the finally clause
\* runs before it propagates.
SysExit ==
  /\ pc = "sys_exit"
  /\ exc' = [type |-> "SystemExit", code |-> 1]
  /\ pc' = "finally"
  /\ UNCHANGED <<db, cause, out, status, slots, observed>>

\* An exception no except clause matches goes on to the finally clause.
Unhandled ==
  /\ pc = "except"
  /\ exc.type \notin {"KeyboardInterrupt", "Exception"}
  /\ pc' = "finally"
  /\ UNCHANGED <<db, exc, cause, out, status, slots, observed>>

\* finally: print the final message.
Finally ==
  /\ pc = "finally"
  /\ out' = Append(out, MsgExited)
  /\ pc' = "leaving"
  /\ UNCHANGED <<db, exc, cause, status, slots, observed>>

\* main() is left: a propagating SystemExit sets the exit status, a normal
\* return ends the process with status 0.
Terminate ==
  /\ pc = "leaving"
  /\ status' = IF exc.type = "SystemExit" THEN exc.code ELSE 0
  /\ pc' = "exited"
  /\ UNCHANGED <<db, exc, cause, out, slots, observed>>

(***************************************************************************)
(* Tool invocations, served while mcp.run is running.                      *)
(***************************************************************************)
\* The dispatcher calls tool with validated params.
Invoke(s, tool, params) ==
  /\ pc = "running"
  /\ slots[s].phase = "idle"
  /\ slots' = [slots EXCEPT ![s] =
       [phase |-> "scan", tool |-> tool, params |-> params, i |-> 0,
        books |-> <<>>, result |-> NoResult]]
  /\ UNCHANGED <<db, pc, exc, cause, out, status, observed>>

\* Variant: the scan filters BOOKS_DATABASE in place, removing the element
\* it does not keep.
ScanStepRemoving(s) ==
  /\ pc = "running"
  /\ slots[s].phase = "scan"
  /\ slots[s].i < Len(db)
  /\ LET r == slots[s]
         b == db[r.i + 1]
         keep == Keeps(r.tool, b, r.params)
     IN  /\ slots' = [slots EXCEPT ![s] =
               [r EXCEPT !.i = r.i + 1,
                         !.books = Collect(r.books, b, keep)]]
         /\ db' = IF keep THEN db
                  ELSE SubSeq(db, 1, r.i) \o SubSeq(db, r.i + 2, Len(db))
  /\ UNCHANGED <<pc, exc, cause, out, status, observed>>

\* One step of "for b in BOOKS_DATABASE" with the comprehension's condition.
ScanStep(s) ==
  /\ pc = "running"
  /\ slots[s].phase = "scan"
  /\ slots[s].i < Len(db)
  /\ LET r == slots[s]
         b == db[r.i + 1]
     IN  slots' = [slots EXCEPT ![s] =
           [r EXCEPT !.i = r.i + 1,
                     !.books = Collect(r.books, b, Keeps(r.tool, b, r.params))]]
  /\ UNCHANGED <<db, pc, exc, cause, out, status, observed>>

\* Variant: the tool reverses BOOKS_DATABASE in place before it returns.
ReturnReversing(s) ==
  /\ pc = "running"
  /\ slots[s].phase = "scan"
  /\ slots[s].i >= Len(db)
  /\ LET r == slots[s]
     IN  slots' = [slots EXCEPT ![s] =
           [r EXCEPT !.phase = "done",
                     !.result = ReturnValue(r.tool, r.books, r.params)]]
  /\ db' = [k \in 1..Len(db) |-> db[Len(db) + 1 - k]]
  /\ UNCHANGED <<pc, exc, cause, out, status, observed>>

\* The iteration is exhausted: the rest of the tool's body runs and returns.
Return(s) ==
  /\ pc = "running"
  /\ slots[s].phase = "scan"
  /\ slots[s].i >= Len(db)
  /\ LET r == slots[s]
     IN  slots' = [slots EXCEPT ![s] =
           [r EXCEPT !.phase = "done",
                     !.result = ReturnValue(r.tool, r.books, r.params)]]
  /\ UNCHANGED <<db, pc, exc, cause, out, status, observed>>

\* The response is sent and the server keeps nothing of the invocation;
\* keep says whether the caller holds on to the response.
Respond(s, keep) ==
  /\ pc = "running"
  /\ slots[s].phase = "done"
  /\ slots' = [slots EXCEPT ![s] = IdleSlot]
  /\ observed' = IF keep
                 THEN Response(slots[s].tool, slots[s].params, slots[s].result)
                 ELSE observed
  /\ UNCHANGED <<db, pc, exc, cause, out, status>>

Next ==
  \/ RunServer
  \/ RunReturns
  \/ \E e \in RunExceptions : RunRaises(e)
  \/ ExceptKeyboardInterrupt
  \/ ExceptException
  \/ SysExit
  \/ Unhandled
  \/ Finally
  \/ Terminate
  \/ \E s \in Slots : \E tool \in Tools : \E params \in ParamsOf(tool) :
        Invoke(s, tool, params)
  \/ \E s \in Slots : ScanStep(s)
  \/ \E s \in Slots : Return(s)
  \/ \E s \in Slots : \E keep \in BOOLEAN : Respond(s, keep)

Spec == Init /\ [][Next]_vars

(***************************************************************************)
(* What the properties speak about.                                        *)
(***************************************************************************)
\* The responses that exist: returned and not yet sent, or held by a caller.
Responses ==
  {observed} \cup
  { Response(slots[s].tool, slots[s].params, slots[s].result) :
      s \in {t \in Slots : slots[t].phase = "done"} }

\* The positions of the fixed collection that hold genre g, rating above r,
\* year y.
GenrePositions(g) ==
  {j \in 1..Len(BOOKS_DATABASE) : BOOKS_DATABASE[j].genre = g}

RatingPositions(r) ==
  {j \in 1..Len(BOOKS_DATABASE) : BOOKS_DATABASE[j].rating > r}

YearPositions(y) ==
  {j \in 1..Len(BOOKS_DATABASE) : BOOKS_DATABASE[j].year = y}

RecordsAt(S) == {BOOKS_DATABASE[j] : j \in S}

RECURSIVE RatingTotal(_)
RatingTotal(S) ==
  IF S = {} THEN 0
  ELSE LET j == CHOOSE k \in S : TRUE
       IN  BOOKS_DATABASE[j].rating + RatingTotal(S \ {j})

Range(q) == {q[k] : k \in 1..Len(q)}

Titles(q) == {q[k].title : k \in 1..Len(q)}

Count(q, m) == Cardinality({k \in 1..Len(q) : q[k] = m})

\* C1: for a genre g that some record has, get_average_rating_by_genre(g)
\* returns genre g and an average that is the total rating of exactly the
\* records of genre g divided by their number.
AverageOfPresentGenre ==
  \A r \in Responses :
    (r.tool = "get_average_rating_by_genre" /\ GenrePositions(r.params.genre) # {}) =>
      /\ r.result.kind = "AverageRatingResult"
      /\ r.result.genre = r.params.genre
      /\ r.result.average_rating.den > 0
      /\ r.result.average_rating.num * Cardinality(GenrePositions(r.params.genre))
           = r.result.average_rating.den * RatingTotal(GenrePositions(r.params.genre))

AverageOfPresentGenreWitness ==
  \E r \in Responses :
    /\ r.tool = "get_average_rating_by_genre"
    /\ r.params.genre = "Dystopian Fiction"
    /\ r.result.kind = "AverageRatingResult"
    /\ r.result.average_rating = [num |-> 1340, den |-> 3]

\* C2: for a genre g that no record has (a different letter case and the
\* empty string included), get_average_rating_by_genre(g) returns
\* average_rating 0.0 with genre g and does not fail.
AverageOfAbsentGenre ==
  \A r \in Responses :
    (r.tool = "get_average_rating_by_genre" /\ GenrePositions(r.params.genre) = {}) =>
      r.result = [kind |-> "AverageRatingResult",
                  average_rating |-> [num |-> 0, den |-> 1],
                  genre |-> r.params.genre]

AverageOfAbsentGenreWitness ==
  \E r \in Responses :
    /\ r.tool = "get_average_rating_by_genre"
    /\ r.params.genre = "fantasy"
    /\ r.result.kind = "AverageRatingResult"
    /\ r.result.average_rating.num = 0

\* C3: get_books_by_genre(g) returns exactly the records whose genre is g
\* character for character, none when no record has it; for "Fantasy"
\* these are "The Hobbit" and "The Lord of the Rings".
BooksByGenreExact ==
  \A r \in Responses :
    r.tool = "get_books_by_genre" =>
      /\ r.result.kind = "BooksList"
      /\ Range(r.result.books) = RecordsAt(GenrePositions(r.params.genre))
      /\ Len(r.result.books) = Cardinality(GenrePositions(r.params.genre))
      /\ r.params.genre = "Fantasy" =>
            /\ Titles(r.result.books) = {"The Hobbit", "The Lord of the Rings"}
            /\ Len(r.result.books) = 2

BooksByGenreExactWitness ==
  \E r \in Responses :
    /\ r.tool = "get_books_by_genre"
    /\ r.params.genre = "Fantasy"
    /\ r.result.kind = "BooksList"
    /\ Len(r.result.books) = 2

BooksByYearExact ==
  \A r \in Responses :
    r.tool = "get_books_by_year" =>
      /\ r.result.kind = "BooksList"
      /\ Range(r.result.books) = RecordsAt(YearPositions(r.params.year))
      /\ Len(r.result.books) = Cardinality(YearPositions(r.params.year))
      /\ r.params.year = 1949 =>
            /\ Len(r.result.books) = 1
            /\ Titles(r.result.books) = {"1984"}
      /\ r.params.year = 2000 => r.result.books = <<>>

BooksByYearExactWitness ==
  \E r \in Responses :
    /\ r.tool = "get_books_by_year"
    /\ r.params.year = 1949
    /\ r.result.kind = "BooksList"
    /\ Len(r.result.books) = 1

\* C6: whatever the tools were called with and however the invocations
\* interleaved, BOOKS_DATABASE has its initial value.
DatabaseNeverMutated == db = BOOKS_DATABASE

DatabaseNeverMutatedWitness ==
  /\ db = BOOKS_DATABASE
  /\ observed.tool = "get_books_by_rating_above"
  /\ \E s, t \in Slots :
       /\ slots[s].phase = "scan" /\ slots[s].i = 4
       /\ slots[s].tool = "get_average_rating_by_genre"
       /\ slots[t].phase = "done"
       /\ slots[t].tool = "get_books_by_year"

\* C7: two invocations of one tool with the same input have the same output,
\* whatever was invoked before or between them.
SameInputSameOutput ==
  \A r1, r2 \in Responses :
    (r1.tool = r2.tool /\ r1.params = r2.params) => r1.result = r2.result

SameInputSameOutputWitness ==
  /\ observed.tool = "get_books_by_genre"
  /\ observed.params.genre = "Classic Fiction"
  /\ \E s, t \in Slots :
       /\ slots[s].phase = "done"
       /\ slots[s].tool = observed.tool
       /\ slots[s].params = observed.params
       /\ slots[s].result = observed.result
       /\ slots[t].phase = "done"
       /\ slots[t].tool = "get_books_by_rating_above"

FinalMessageLast ==
  /\ Count(out, MsgExited) <= 1
  /\ pc \in {"leaving", "exited"} =>
        /\ Count(out, MsgExited) = 1
        /\ out[Len(out)] = MsgExited
        /\ cause = "returned" => out = <<MsgExited>>
        /\ cause = "KeyboardInterrupt" => out = <<MsgShutdown, MsgExited>>
        /\ cause = "Exception" => out = <<MsgError, MsgExited>>
  /\ pc \notin {"leaving", "exited"} => (MsgExited \notin Range(out) /\ status = 0)

FinalMessageLastWitness ==
  /\ pc = "exited"
  /\ cause = "KeyboardInterrupt"
  /\ out = <<MsgShutdown, MsgExited>>

\* The first position of the fixed collection that holds record m (0: none).
PositionOf(m) ==
  IF \E j \in 1..Len(BOOKS_DATABASE) : BOOKS_DATABASE[j] = m
  THEN CHOOSE j \in 1..Len(BOOKS_DATABASE) :
         /\ BOOKS_DATABASE[j] = m
         /\ \A i \in 1..(j - 1) : BOOKS_DATABASE[i] # m
  ELSE 0

\* C10: what the three list tools return is a subsequence of BOOKS_DATABASE:
\* records of the collection with every field unchanged, each at most once,
\* in the order of the collection (ascending id).
ResultIsSubsequence ==
  \A r \in Responses :
    r.tool \in {"get_books_by_genre", "get_books_by_rating_above", "get_books_by_year"} =>
      /\ r.result.kind = "BooksList"
      /\ \A k \in 1..Len(r.result.books) : PositionOf(r.result.books[k]) > 0
      /\ \A k, l \in 1..Len(r.result.books) :
            k < l =>
              /\ PositionOf(r.result.books[k]) < PositionOf(r.result.books[l])
              /\ r.result.books[k].id < r.result.books[l].id

ResultIsSubsequenceWitness ==
  \E r \in Responses :
    /\ r.tool = "get_books_by_rating_above"
    /\ r.params.rating = 410
    /\ r.result.kind = "BooksList"
    /\ Len(r.result.books) = 10

TypeOK ==
  /\ pc \in {"main", "running", "except", "sys_exit", "finally", "leaving", "exited"}
  /\ status \in 0..1
  /\ Len(out) <= 2
  /\ \A s \in Slots : slots[s].i \in 0..Len(db)
====
